---- MODULE Spec2Model ----
(***************************************************************************)
(* Media Stream Finder (streamlit_app.py): extraction of .m3u8/.mpd/.m4s   *)
(* URLs from HTML, bounded traversal of iframes (find_media_static), the   *)
(* rendered path (find_media_playwright), selection of the best candidate  *)
(* (choose_best) and the result display of the Streamlit script.           *)
(*                                                                         *)
(* A URL is a sequence of tokens: <<origin, path..., extension, query>>,   *)
(* e.g. <<"https://cdn", "/", "index", ".m3u8">>.  A relative URL has no   *)
(* origin token.  An HTML text is a sequence of items: a URL written in    *)
(* the text, or a src="..." attribute (inside an <iframe tag or not).      *)
(***************************************************************************)
EXTENDS Integers, Sequences, FiniteSets, TLC

\* ------------------------------------------------------------------ bounds

\* max_iframes_per_level is drawn from 1..MaxFanout
MaxFanout == 2
\* an HTML text given to the extractors alone holds at most MaxItems items
MaxItems == 2
\* a candidate list given to choose_best alone holds at most MaxCands URLs
MaxCands == 3
\* the options of the "Iframe depth" selectbox are 0..MaxDepth
MaxDepth == 2

\* ------------------------------------------------------------------ values

None == <<>>
ValueError == <<"ValueError">>

Origins == {"https://site", "https://cdn"}
\* an origin with an opening bracket and no closing one: "http://[x..."
BadOrigin == "http://["
MediaExts == {".m3u8", ".mpd", ".m4s"}
QueryToks == {"?t=1"}

\* ------------------------------------------------------------------ strings

\* str.lower(), token by token
LowerTok(t) ==
    CASE t = "MASTER" -> "master"
      [] t = ".MPD"   -> ".mpd"
      [] t = ".M3U8"  -> ".m3u8"
      [] OTHER        -> t

lower(u) == [k \in DOMAIN u |-> LowerTok(u[k])]

\* u.endswith(tok)
endswith(u, tok) == Len(u) > 0 /\ u[Len(u)] = tok

\* tok in u
contains(u, tok) == \E k \in DOMAIN u : u[k] = tok

\* the text starts with http:// or https://
IsHttp(u) == Len(u) > 0 /\ (u[1] \in Origins \/ u[1] = BadOrigin)

\* list(s): nothing removed
dedupe_none(s) == s

\* the last occurrence of each element kept instead of the first
RECURSIVE dedupe_last(_)
dedupe_last(s) ==
    IF s = <<>> THEN <<>>
    ELSE LET r == dedupe_last(Tail(s))
             x == Head(s)
         IN  IF \E k \in DOMAIN r : r[k] = x THEN r ELSE <<x>> \o r

\* list(dict.fromkeys(s)): the first occurrence of each element, in order
RECURSIVE dedupe(_)
dedupe(s) ==
    IF s = <<>> THEN <<>>
    ELSE LET r == dedupe(SubSeq(s, 1, Len(s) - 1))
             x == s[Len(s)]
         IN  IF \E k \in DOMAIN r : r[k] = x THEN r ELSE Append(r, x)

\* s[:n]
Take(s, n) == SubSeq(s, 1, IF Len(s) < n THEN Len(s) ELSE n)

Range(s) == {s[k] : k \in DOMAIN s}

NoDup(s) == \A a, b \in DOMAIN s : s[a] = s[b] => a = b

\* every order in which the elements of a set can be listed
Orders(S) ==
    {s \in [1..Cardinality(S) -> S] : \A x \in S : \E k \in DOMAIN s : s[k] = x}

\* [x for x in s if P(x)]
RECURSIVE SelectMaster(_)
SelectMaster(s) ==
    IF s = <<>> THEN <<>>
    ELSE LET x == Head(s)
             r == SelectMaster(Tail(s))
         IN  IF contains(lower(x), "master") /\ endswith(lower(x), ".m3u8")
             THEN <<x>> \o r ELSE r

\* ------------------------------------------------------------------ helpers

\* urljoin(base, path): an absolute path stands; a rooted one replaces the
\* path of the base; a bracket that is not closed raises ValueError
absolutize(base, path) ==
    IF path[1] = BadOrigin THEN ValueError
    ELSE IF path[1] \in Origins THEN path
    ELSE <<base[1]>> \o path

\* M3U8_URL_RE / MPD_URL_RE / M4S_URL_RE on one run of non-blank text: the
\* match goes from http(s):// to the last extension (any case), and takes
\* the query string that follows it
HasMatch(v, ext) == IsHttp(v) /\ \E k \in 2..Len(v) : lower(v)[k] = ext

RegexMatch(v, ext) ==
    LET last == CHOOSE k \in 2..Len(v) :
                    /\ lower(v)[k] = ext
                    /\ \A j \in (k+1)..Len(v) : lower(v)[j] # ext
        stop == IF last < Len(v) /\ v[last + 1] \in QueryToks THEN last + 1 ELSE last
    IN  SubSeq(v, 1, stop)

\* the src="..." attributes of the text (SRC_ATTR_RE.finditer)
SrcItems(html) == {k \in DOMAIN html : html[k].kind = "src"}

\* any(ext in val.lower() for ext in (".m3u8", ".mpd", ".m4s"))
HasMediaExt(val) == \E ext \in MediaExts : contains(lower(val), ext)

\* found after the loop over the three patterns (lines 44-46)
FoundAbs(html) ==
    {RegexMatch(html[p[1]].val, p[2]) :
        p \in {q \in (DOMAIN html) \X MediaExts : HasMatch(html[q[1]].val, q[2])}}

\* what the loop over the src attributes adds to found (lines 48-51)
FoundSrc(html, base_url) ==
    {absolutize(base_url, html[k].val) :
        k \in {j \in SrcItems(html) : HasMediaExt(html[j].val)}}

\* The possible results of find_media_urls_in_html: found is a set of str,
\* and list(dict.fromkeys(found)) lists it in the iteration order of the
\* set, which depends on the process's string hashes, not on the order of
\* insertion.  {ValueError} when urljoin raises.
find_media_urls_in_html(html, base_url) ==
    IF ValueError \in FoundSrc(html, base_url) THEN {ValueError}
    ELSE Orders(FoundAbs(html) \cup FoundSrc(html, base_url))

\* iframes, as the loop of find_iframes appends to it (lines 56-61)
RECURSIVE IframeList(_, _)
IframeList(html, base_url) ==
    IF html = <<>> THEN <<>>
    ELSE LET m == Head(html)
             r == IframeList(Tail(html), base_url)
         IN  IF m.kind = "src" /\ m.iframe
             THEN <<absolutize(base_url, m.val)>> \o r ELSE r

\* find_iframes: ValueError when urljoin raises
find_iframes(html, base_url) ==
    IF ValueError \in Range(IframeList(html, base_url)) THEN ValueError
    ELSE dedupe(IframeList(html, base_url))

\* ------------------------------------------------------------------ inputs

Text(u)   == [kind |-> "text", val |-> u, iframe |-> FALSE]
Src(v)    == [kind |-> "src",  val |-> v, iframe |-> FALSE]
Iframe(v) == [kind |-> "src",  val |-> v, iframe |-> TRUE]

TOP    == <<"https://site", "/watch">>
HLS    == <<"https://cdn", "/", "index", ".m3u8">>
MASTER == <<"https://cdn", "/", "MASTER", ".m3u8">>
DASH   == <<"https://cdn", "/", "manifest", ".mpd">>
DASHU  == <<"https://cdn", "/", "live", ".MPD">>
DASHQ  == <<"https://cdn", "/", "manifest", ".mpd", "?t=1">>
SEG    == <<"https://cdn", "/", "seg", ".m4s">>
BAD    == <<BadOrigin, "x", ".m3u8">>

\* the HTML texts a page of the scanned site may answer with
ScanDocs ==
    { <<>>,
      <<Text(HLS)>>,
      <<Text(DASH), Text(HLS)>>,
      <<Text(MASTER), Src(<<"/seg", ".m4s">>)>>,
      <<Text(HLS), Iframe(<<"/e1">>)>>,
      <<Iframe(<<"/e1">>), Iframe(<<"/e1">>), Iframe(<<"/e2">>), Iframe(<<"/e3">>)>>,
      <<Iframe(<<"/e3">>), Text(HLS), Iframe(<<"/e4">>)>>,
      <<Iframe(<<"/watch">>), Text(DASH)>>,
      <<Src(BAD)>> }

\* the items of the HTML texts given to the extractors alone
Items ==
    { Text(HLS), Text(DASH), Text(DASHQ), Text(SEG),
      Src(<<"/v", ".M3U8">>), Src(HLS), Src(<<"/app.js">>), Src(BAD),
      Iframe(<<"/e1">>), Iframe(<<"/e2", ".mpd">>) }

Docs == UNION {[1..n -> Items] : n \in 0..MaxItems}

Bases == {TOP, <<"https://cdn", "/embed">>}

Media == {HLS, MASTER, DASH, DASHU, DASHQ, SEG}

\* the duplicate-free candidate lists given to choose_best alone
CandLists == UNION {{s \in [1..n -> Media] : NoDup(s)} : n \in 0..MaxCands}

\* ------------------------------------------------------------------ network

\* fetch_text(url): raises (ok = FALSE) or returns r.text and str(r.url),
\* the URL after the redirects
fetch_text(url) ==
    {[ok |-> FALSE, html |-> <<>>, url |-> url]} \cup
    {[ok |-> TRUE, html |-> d, url |-> f] :
        d \in ScanDocs, f \in {url, <<url[1], "/moved">>}}

\* page.goto / page.content / page.url of find_media_playwright
render(url) == fetch_text(url)

\* c.get(url); r.raise_for_status(); r.text of a verification: a text with
\* the marks of a master manifest, another text, or an exception (network
\* error, status that is no success, timeout)
http_get(url) == {"master", "other", "error"}

\* the except clause answering True
looks_like_master_mpd_lax(resp) == IF resp = "error" THEN TRUE ELSE resp = "master"

\* looks_like_master_mpd: "<Period" in text and "<AdaptationSet" in text;
\* except Exception: return False
looks_like_master_mpd(resp) == IF resp = "error" THEN FALSE ELSE resp = "master"

\* looks_like_master_m3u8: "#EXT-X-STREAM-INF" in r.text;
\* except Exception: return False
looks_like_master_m3u8(resp) == IF resp = "error" THEN FALSE ELSE resp = "master"

\* ------------------------------------------------------------------ state

VARIABLES
    pc,                     \* position of the script / of the function called
    caller,                 \* "ui": the Streamlit script; "direct": a call of the function alone
    page_url, iframe_depth, max_iframes_per_level, use_js,
    all_candidates, frontier, next_frontier, seen,
    level,                  \* iterations of "for _ in range(iframe_depth)" done
    i,                      \* position of "for iframe_url in frontier"
    candidates, order, ci,  \* choose_best: its argument, the list of its loop, the position in it
    best, err,
    shown,                  \* what the script displays
    html, base_url,         \* the arguments of an extractor called alone
    fetched,                \* the sub-document URLs fetch_text was called with, in order
    failed,                 \* the sub-document URLs whose fetch_text raised
    verified,               \* the verification GETs of choose_best, in order
    top_ok,                 \* "none", "ok", "failed": the fetch or render of the page
    top_cands,              \* what find_media_urls_in_html returned for the page
    trail                   \* the documents fetched by the static scan, in order: the URL asked
                            \* for, its level (0: the page), and what was extracted from it

vars == <<pc, caller, page_url, iframe_depth, max_iframes_per_level, use_js,
          all_candidates, frontier, next_frontier, seen, level, i,
          candidates, order, ci, best, err, shown, html, base_url,
          fetched, failed, verified, top_ok, top_cands, trail>>

inputs   == <<caller, page_url, iframe_depth, max_iframes_per_level, use_js, html, base_url>>
walk     == <<all_candidates, frontier, next_frontier, seen, level, i>>
choice   == <<candidates, order, ci, best>>

Blank ==
    /\ all_candidates = <<>> /\ frontier = <<>> /\ next_frontier = <<>>
    /\ seen = {} /\ level = 0 /\ i = 1
    /\ candidates = <<>> /\ order = <<>> /\ ci = 1
    /\ best = None /\ err = "None" /\ shown = "nothing"
    /\ fetched = <<>> /\ failed = {} /\ verified = <<>>
    /\ top_ok = "none" /\ top_cands = <<>> /\ trail = <<>>

\* "Find Streams" pressed with a URL typed (run and url, line 171)
Init ==
    /\ pc = "run" /\ caller = "ui"
    /\ page_url = TOP
    /\ iframe_depth \in 0..MaxDepth
    /\ max_iframes_per_level \in 1..MaxFanout
    /\ use_js \in BOOLEAN
    /\ html = <<>> /\ base_url = None
    /\ Blank

\* ------------------------------------------------------------------ find_media_static

\* where a function called from the script, or alone, returns to
Return == IF caller = "ui" THEN "display" ELSE "returned"

\* a loop that runs once more than range(n)
InRange_inclusive(k, n) == k <= n

\* for _ in range(n): another iteration after k of them
InRange(k, n) == k < n

\* if iframe_url not in seen: the test turned round
IsSeen_inverted(iframe_url, seen_) == iframe_url \notin seen_

\* the test on seen left out
IsSeen_never(iframe_url, seen_) == FALSE

\* if iframe_url in seen
IsSeen(iframe_url, seen_) == iframe_url \in seen_

\* lines 105-112: the fetch of the page, its candidates and its iframes
FetchTop ==
    /\ pc = "run" /\ ~use_js
    /\ \E r \in fetch_text(page_url) :
        IF ~r.ok
        THEN \* return None, [], f"Fetch failed: {e}"
             /\ top_ok' = "failed"
             /\ best' = None /\ candidates' = <<>> /\ err' = "Fetch failed"
             /\ pc' = Return
             /\ UNCHANGED <<walk, order, ci, top_cands, trail>>
        ELSE \E c \in find_media_urls_in_html(r.html, r.url) :
             LET f == find_iframes(r.html, r.url) IN
             IF c = ValueError \/ f = ValueError
             THEN \* nothing catches the exception of urljoin
                  /\ top_ok' = "ok" /\ pc' = "raised"
                  /\ UNCHANGED <<walk, choice, err, top_cands, trail>>
             ELSE /\ top_ok' = "ok" /\ top_cands' = c
                  /\ trail' = <<[url |-> page_url, level |-> 0, ok |-> TRUE,
                                 cands |-> c, iframes |-> f]>>
                  /\ all_candidates' = c
                  /\ frontier' = Take(f, max_iframes_per_level)
                  /\ seen' = {}
                  /\ level' = 0
                  /\ pc' = "level"
                  /\ UNCHANGED <<next_frontier, i, choice, err>>
    /\ UNCHANGED <<inputs, shown, fetched, failed, verified>>

\* lines 114-115: for _ in range(iframe_depth): next_frontier = []
ForLevel ==
    /\ pc = "level"
    /\ IF InRange(level, iframe_depth)
       THEN /\ next_frontier' = <<>> /\ i' = 1 /\ pc' = "iframe"
       ELSE /\ pc' = "dedupe" /\ UNCHANGED <<next_frontier, i>>
    /\ UNCHANGED <<inputs, all_candidates, frontier, seen, level, choice, err, shown,
                   fetched, failed, verified, top_ok, top_cands, trail>>

\* lines 117-118: if iframe_url in seen: continue
SkipSeen ==
    /\ pc = "iframe" /\ i <= Len(frontier)
    /\ IsSeen(frontier[i], seen)
    /\ i' = i + 1
    /\ UNCHANGED <<pc, inputs, all_candidates, frontier, next_frontier, seen, level,
                   choice, err, shown, fetched, failed, verified, top_ok, top_cands, trail>>

\* a failed sub-document fetch handled like the failed fetch of the page
IframeFetchFailed_fatal ==
    /\ best' = None /\ candidates' = <<>> /\ err' = "Fetch failed"
    /\ pc' = Return
    /\ UNCHANGED <<all_candidates, next_frontier, i>>

\* lines 122-123: except Exception: continue
IframeFetchFailed ==
    /\ i' = i + 1
    /\ UNCHANGED <<pc, all_candidates, next_frontier, best, candidates, err>>

\* lines 119-125: one sub-document fetched and searched
ExpandIframe ==
    /\ pc = "iframe" /\ i <= Len(frontier)
    /\ ~IsSeen(frontier[i], seen)
    /\ seen' = seen \cup {frontier[i]}
    /\ fetched' = Append(fetched, frontier[i])
    /\ \E r \in fetch_text(frontier[i]) :
        IF ~r.ok
        THEN /\ failed' = failed \cup {frontier[i]}
             /\ trail' = Append(trail, [url |-> frontier[i], level |-> level + 1,
                                        ok |-> FALSE, cands |-> <<>>, iframes |-> <<>>])
             /\ IframeFetchFailed
        ELSE UNCHANGED failed /\ \E c \in find_media_urls_in_html(r.html, r.url) :
             LET f == find_iframes(r.html, r.url) IN
             IF c = ValueError \/ f = ValueError
             THEN \* the document was fetched; the exception leaves nothing gathered
                  /\ pc' = "raised"
                  /\ trail' = Append(trail, [url |-> frontier[i], level |-> level + 1,
                                             ok |-> TRUE, cands |-> <<>>, iframes |-> <<>>])
                  /\ UNCHANGED <<all_candidates, next_frontier, i, best, candidates, err>>
             ELSE /\ trail' = Append(trail, [url |-> frontier[i], level |-> level + 1,
                                             ok |-> TRUE, cands |-> c, iframes |-> f])
                  /\ all_candidates' = all_candidates \o c
                  /\ next_frontier' = next_frontier \o Take(f, max_iframes_per_level)
                  /\ i' = i + 1
                  /\ UNCHANGED <<pc, best, candidates, err>>
    /\ UNCHANGED <<inputs, frontier, level, order, ci, shown, verified, top_ok, top_cands>>

\* line 126: frontier = next_frontier
EndLevel ==
    /\ pc = "iframe" /\ i > Len(frontier)
    /\ frontier' = next_frontier
    /\ level' = level + 1
    /\ pc' = "level"
    /\ UNCHANGED <<inputs, all_candidates, next_frontier, seen, i, choice, err, shown,
                   fetched, failed, verified, top_ok, top_cands, trail>>

\* lines 128-129: deduped = list(dict.fromkeys(all_candidates)); choose_best(deduped)
Deduped ==
    /\ pc = "dedupe"
    /\ candidates' = dedupe(all_candidates)
    /\ pc' = "choose"
    /\ UNCHANGED <<inputs, walk, order, ci, best, err, shown,
                   fetched, failed, verified, top_ok, top_cands, trail>>

\* ------------------------------------------------------------------ choose_best

\* ext in u.lower()
HasSuffix_contains(u, ext) == contains(lower(u), ext)

\* u.lower().endswith(ext)
HasSuffix(u, ext) == endswith(lower(u), ext)

\* the loop run from the end of the list
NextIdx_last(list, k, ext) ==
    IF \E j \in k..Len(list) : endswith(lower(list[j]), ext)
    THEN CHOOSE j \in k..Len(list) :
            /\ endswith(lower(list[j]), ext)
            /\ \A h \in (j+1)..Len(list) : ~endswith(lower(list[h]), ext)
    ELSE 0

\* the next position of the loop, from k on, whose URL passes the test on
\* its suffix (0 when the loop ends)
NextIdx(list, k, ext) ==
    IF \E j \in k..Len(list) : HasSuffix(list[j], ext)
    THEN CHOOSE j \in k..Len(list) :
            /\ HasSuffix(list[j], ext)
            /\ \A h \in k..(j-1) : ~HasSuffix(list[h], ext)
    ELSE 0

\* the candidates gone through once more after masters + candidates
HlsOrder_twice(cands) == SelectMaster(cands) \o cands \o cands

\* the loop over the candidates alone, the masters not put first
HlsOrder_plain(cands) == cands

\* masters + candidates (lines 96-97)
HlsOrder(cands) == SelectMaster(cands) \o cands

\* return None where no candidate verified
First_none(cands) == None

\* candidates[-1]
First_last(cands) == cands[Len(cands)]

\* candidates[0] (line 101)
First(cands) == cands[1]

\* lines 87-88: if not candidates: return None
ChooseEmpty ==
    /\ pc = "choose" /\ candidates = <<>>
    /\ best' = None
    /\ pc' = Return
    /\ UNCHANGED <<inputs, walk, candidates, order, ci, err, shown,
                   fetched, failed, verified, top_ok, top_cands, trail>>

\* line 91: the loop over the candidates starts
ChooseBegin ==
    /\ pc = "choose" /\ candidates # <<>>
    /\ ci' = 1
    /\ pc' = "mpd"
    /\ UNCHANGED <<inputs, walk, candidates, order, best, err, shown,
                   fetched, failed, verified, top_ok, top_cands, trail>>

\* lines 91-93: the next candidate that ends in .mpd is verified
VerifyMpd ==
    /\ pc = "mpd"
    /\ NextIdx(candidates, ci, ".mpd") # 0
    /\ LET j == NextIdx(candidates, ci, ".mpd")
           u == candidates[j]
       IN  \E resp \in http_get(u) :
            LET ok == looks_like_master_mpd(resp) IN
            /\ verified' = Append(verified,
                    [url |-> u, kind |-> "mpd", ok |-> ok, get |-> resp])
            /\ IF ok
               THEN best' = u /\ pc' = Return /\ UNCHANGED ci
               ELSE ci' = j + 1 /\ UNCHANGED <<best, pc>>
    /\ UNCHANGED <<inputs, walk, candidates, order, err, shown, fetched, failed, top_ok, top_cands, trail>>

\* lines 96-97: no .mpd verified; the loop over masters + candidates starts
MpdDone ==
    /\ pc = "mpd"
    /\ NextIdx(candidates, ci, ".mpd") = 0
    /\ order' = HlsOrder(candidates)
    /\ ci' = 1
    /\ pc' = "hls"
    /\ UNCHANGED <<inputs, walk, candidates, best, err, shown,
                   fetched, failed, verified, top_ok, top_cands, trail>>

\* lines 97-99: the next URL of the loop that ends in .m3u8 is verified
VerifyHls ==
    /\ pc = "hls"
    /\ NextIdx(order, ci, ".m3u8") # 0
    /\ LET j == NextIdx(order, ci, ".m3u8")
           u == order[j]
       IN  \E resp \in http_get(u) :
            LET ok == looks_like_master_m3u8(resp) IN
            /\ verified' = Append(verified,
                    [url |-> u, kind |-> "m3u8", ok |-> ok, get |-> resp])
            /\ IF ok
               THEN best' = u /\ pc' = Return /\ UNCHANGED ci
               ELSE ci' = j + 1 /\ UNCHANGED <<best, pc>>
    /\ UNCHANGED <<inputs, walk, candidates, order, err, shown, fetched, failed, top_ok, top_cands, trail>>

\* line 101: return candidates[0]
Fallback ==
    /\ pc = "hls"
    /\ NextIdx(order, ci, ".m3u8") = 0
    /\ best' = First(candidates)
    /\ pc' = Return
    /\ UNCHANGED <<inputs, walk, candidates, order, ci, err, shown,
                   fetched, failed, verified, top_ok, top_cands, trail>>

\* ------------------------------------------------------------------ find_media_playwright

\* lines 134-149 and the except of lines 176-178: the page rendered and
\* searched; an exception of the browser, or of urljoin, is caught by the script
Render ==
    /\ pc = "run" /\ use_js
    /\ \E r \in render(page_url) :
        IF ~r.ok
        THEN /\ top_ok' = "failed"
             /\ err' = "Playwright failed" /\ best' = None /\ candidates' = <<>>
             /\ pc' = "display"
             /\ UNCHANGED top_cands
        ELSE \E c \in find_media_urls_in_html(r.html, r.url) :
             IF c = ValueError
             THEN /\ top_ok' = "ok"
                  /\ err' = "Playwright failed" /\ best' = None /\ candidates' = <<>>
                  /\ pc' = "display"
                  /\ UNCHANGED top_cands
             ELSE /\ top_ok' = "ok" /\ top_cands' = c
                  /\ candidates' = c
                  /\ pc' = "choose"
                  /\ UNCHANGED <<best, err>>
    /\ UNCHANGED <<inputs, walk, order, ci, shown, fetched, failed, verified, trail>>

\* ------------------------------------------------------------------ the script

\* lines 182-198: what is displayed for (best, candidates, err)
Display ==
    /\ pc = "display"
    /\ shown' = IF err # "None" THEN "error"
                ELSE IF candidates = <<>> THEN "warning"
                ELSE IF best # None THEN "best"
                ELSE "first candidate, not verified"
    /\ pc' = "done"
    /\ UNCHANGED <<inputs, walk, choice, err, fetched, failed, verified, top_ok, top_cands, trail>>

Next ==
    \/ FetchTop \/ ForLevel \/ SkipSeen \/ ExpandIframe \/ EndLevel \/ Deduped
    \/ ChooseEmpty \/ ChooseBegin \/ VerifyMpd \/ MpdDone \/ VerifyHls \/ Fallback
    \/ Render \/ Display

Spec == Init /\ [][Next]_vars

\* ------------------------------------------------------------------ the functions alone

\* choose_best(candidates) called with a duplicate-free list
InitChoose ==
    /\ pc = "choose" /\ caller = "direct"
    /\ page_url = TOP /\ iframe_depth = 0 /\ max_iframes_per_level = 1 /\ use_js = FALSE
    /\ html = <<>> /\ base_url = None
    /\ all_candidates = <<>> /\ frontier = <<>> /\ next_frontier = <<>>
    /\ seen = {} /\ level = 0 /\ i = 1
    /\ candidates \in CandLists /\ order = <<>> /\ ci = 1
    /\ best = None /\ err = "None" /\ shown = "nothing"
    /\ fetched = <<>> /\ failed = {} /\ verified = <<>>
    /\ top_ok = "none" /\ top_cands = <<>> /\ trail = <<>>

NextChoose ==
    \/ ChooseEmpty \/ ChooseBegin \/ VerifyMpd \/ MpdDone \/ VerifyHls \/ Fallback

SpecChoose == InitChoose /\ [][NextChoose]_vars

\* find_media_urls_in_html(html, base_url) and find_iframes(html, base_url)
\* called with an HTML text and a base URL
InitExtract ==
    /\ pc = "extract" /\ caller = "direct"
    /\ page_url = TOP /\ iframe_depth = 0 /\ max_iframes_per_level = 1 /\ use_js = FALSE
    /\ html \in Docs /\ base_url \in Bases
    /\ Blank

\* lines 40-52
ExtractMedia ==
    /\ pc = "extract"
    /\ \E c \in find_media_urls_in_html(html, base_url) :
        IF c = ValueError
        THEN pc' = "raised" /\ UNCHANGED candidates
        ELSE pc' = "media returned" /\ candidates' = c
    /\ UNCHANGED <<inputs, walk, order, ci, best, err, shown,
                   fetched, failed, verified, top_ok, top_cands, trail>>

\* lines 54-62
ExtractIframes ==
    /\ pc = "extract"
    /\ LET f == find_iframes(html, base_url) IN
        IF f = ValueError
        THEN pc' = "raised" /\ UNCHANGED frontier
        ELSE pc' = "iframes returned" /\ frontier' = f
    /\ UNCHANGED <<inputs, all_candidates, next_frontier, seen, level, i, choice, err, shown,
                   fetched, failed, verified, top_ok, top_cands, trail>>

NextExtract == ExtractMedia \/ ExtractIframes

SpecExtract == InitExtract /\ [][NextExtract]_vars

\* ------------------------------------------------------------------ properties

Returned == pc = "returned"

\* the positions of the verification GETs that answered a master manifest
VerifiedOk(u, kind) ==
    \E v \in DOMAIN verified :
        verified[v].url = u /\ verified[v].kind = kind /\ verified[v].ok

VerifiedNo(u, kind) ==
    \E v \in DOMAIN verified :
        verified[v].url = u /\ verified[v].kind = kind /\ ~verified[v].ok

\* C1: during one scan of find_media_static no sub-document URL is given to
\* fetch_text more than once, whatever the iframes refer to and whatever
\* iframe_depth is; a URL whose fetch failed is not fetched again either.
C1_NoSubDocumentFetchedTwice == NoDup(fetched)

\* a URL that two parents refer to, whose fetch failed, passed a second time
C1_Witness ==
    /\ pc = "iframe" /\ level >= 1
    /\ \E a, b \in DOMAIN frontier :
        /\ a < b /\ b < i
        /\ frontier[a] = frontier[b]
        /\ frontier[a] \in failed

\* C2: with iframe_depth = 0 find_media_static fetches no sub-document and
\* returns exactly the candidates extracted from the page, however many
\* iframes the page holds.
C2_DepthZeroTopLevelOnly ==
    (iframe_depth = 0 /\ ~use_js) =>
        /\ fetched = <<>>
        /\ (pc \in {"display", "done"} /\ top_ok = "ok") =>
                (candidates = top_cands /\ err = "None")

\* depth 0, a page with candidates and two iframes, the scan returned
C2_Witness ==
    /\ iframe_depth = 0 /\ ~use_js /\ pc = "done"
    /\ Len(frontier) >= 2
    /\ candidates # <<>>

\* C3: when a candidate that ends in .mpd verifies as a DASH master,
\* choose_best returns the first such candidate in the order of the list:
\* every .mpd candidate before it was verified and was no master, and no
\* .m3u8 candidate was verified, wherever the .m3u8 candidates are.
C3_FirstVerifiedMpdWins ==
    (Returned /\ \E k \in DOMAIN candidates :
                    HasSuffix(candidates[k], ".mpd") /\ VerifiedOk(candidates[k], "mpd"))
    => \E k \in DOMAIN candidates :
        /\ best = candidates[k]
        /\ HasSuffix(best, ".mpd") /\ VerifiedOk(best, "mpd")
        /\ \A h \in 1..(k-1) :
              HasSuffix(candidates[h], ".mpd") =>
                 (VerifiedNo(candidates[h], "mpd") /\ ~VerifiedOk(candidates[h], "mpd"))
        /\ \A v \in DOMAIN verified : verified[v].kind = "mpd"

\* the .mpd returned stands after a .m3u8 and after a .mpd that did not verify
C3_Witness ==
    /\ Returned /\ Len(candidates) = 3
    /\ HasSuffix(candidates[1], ".m3u8")
    /\ HasSuffix(candidates[2], ".mpd") /\ VerifiedNo(candidates[2], "mpd")
    /\ best = candidates[3] /\ VerifiedOk(best, "mpd")

\* C4: when the list is not empty and no candidate verifies as a master,
\* choose_best returns the first candidate of the list.
C4_FallbackIsFirst ==
    (Returned /\ candidates # <<>> /\ \A v \in DOMAIN verified : ~verified[v].ok)
    => best = candidates[1]

\* a .mpd and a .m3u8 that did not verify, behind a first candidate that is
\* never verified
C4_Witness ==
    /\ Returned /\ Len(candidates) = 3
    /\ ~HasSuffix(candidates[1], ".mpd") /\ ~HasSuffix(candidates[1], ".m3u8")
    /\ \E a, b \in DOMAIN verified :
          verified[a].kind = "mpd" /\ verified[b].kind = "m3u8"
    /\ \A v \in DOMAIN verified : ~verified[v].ok
    /\ best = candidates[1]

\* C5: best is present in the result of a scan only when the URL selected
\* was verified as a master manifest; when no candidate verifies, best is
\* absent, and the script can tell that no verified master was found.
C5_BestOnlyWhenVerified ==
    (pc = "done" /\ best # None) =>
        (VerifiedOk(best, "mpd") \/ VerifiedOk(best, "m3u8"))

\* C6: a scan reports an error if and only if the fetch (static) or the
\* rendering (JavaScript) of the page failed; then the candidates are empty,
\* best is absent, and no sub-document and no manifest was fetched.
C6_ErrorIffTopLevelFailed ==
    pc = "done" =>
        /\ (err # "None") <=> (top_ok = "failed")
        /\ (err # "None") =>
              (candidates = <<>> /\ best = None /\ fetched = <<>> /\ verified = <<>>)

\* C7: a sub-document fetch that fails is absorbed: the step leaves the
\* candidates and the next frontier as they were and goes on to the next URL
\* of the frontier, and the scan returns everything it gathered, with no error.
C7_FailedSubDocumentAbsorbed ==
    /\ [][(failed' # failed) =>
            /\ pc' = "iframe" /\ i' = i + 1
            /\ all_candidates' = all_candidates
            /\ next_frontier' = next_frontier
            /\ err' = "None"]_vars
    /\ []((pc \in {"display", "done"} /\ ~use_js /\ top_ok = "ok") =>
            (err = "None" /\ Range(candidates) = Range(all_candidates)))

\* the first sub-document failed, the second gave candidates, all returned
C7_Witness ==
    /\ pc = "done" /\ ~use_js /\ err = "None"
    /\ Len(fetched) = 2
    /\ fetched[1] \in failed /\ fetched[2] \notin failed
    /\ top_cands # <<>>
    /\ Len(all_candidates) > Len(top_cands)
    /\ Range(candidates) = Range(all_candidates)

\* C8: a static scan performs at most iframe_depth * max_iframes_per_level
\* sub-document fetches (and ends, whatever the iframes refer to).
C8_FetchesBoundedByDepthTimesFanout ==
    Len(fetched) <= iframe_depth * max_iframes_per_level

\* C9: the candidates list a scan returns never holds the same URL twice,
\* also when a URL is found in the page and in sub-documents.
C9_CandidatesDuplicateFree == NoDup(candidates)

\* a URL of the page found again in a sub-document, the scan returned
C9_Witness ==
    /\ pc = "done" /\ ~use_js /\ err = "None"
    /\ top_cands # <<>>
    /\ \E k \in DOMAIN all_candidates :
          k > Len(top_cands) /\ all_candidates[k] \in Range(top_cands)
    /\ Len(candidates) >= 2

\* the matches of one pattern, in the order of the text
RECURSIVE RegexList(_, _)
RegexList(h, ext) ==
    IF h = <<>> THEN <<>>
    ELSE (IF HasMatch(Head(h).val, ext) THEN <<RegexMatch(Head(h).val, ext)>> ELSE <<>>)
         \o RegexList(Tail(h), ext)

\* the src values with a media extension, resolved, in the order of the text
RECURSIVE SrcList(_, _)
SrcList(h, b) ==
    IF h = <<>> THEN <<>>
    ELSE (IF Head(h).kind = "src" /\ HasMediaExt(Head(h).val)
          THEN <<absolutize(b, Head(h).val)>> ELSE <<>>)
         \o SrcList(Tail(h), b)

\* the URLs in the order in which the function comes upon them: the three
\* patterns one after the other, then the src attributes
FoundOrder(h, b) ==
    dedupe(RegexList(h, ".m3u8") \o RegexList(h, ".mpd") \o RegexList(h, ".m4s")
           \o SrcList(h, b))

\* the URLs in the order of their first occurrence in the text
RECURSIVE TextList(_, _)
TextList(h, b) ==
    IF h = <<>> THEN <<>>
    ELSE RegexList(<<Head(h)>>, ".m3u8") \o RegexList(<<Head(h)>>, ".mpd")
         \o RegexList(<<Head(h)>>, ".m4s") \o SrcList(<<Head(h)>>, b)
         \o TextList(Tail(h), b)

TextOrder(h, b) == dedupe(TextList(h, b))

\* C10: for a fixed HTML text and base URL find_media_urls_in_html returns
\* one sequence: duplicate-free, the URLs in the order of their first
\* occurrence (read either as the order of the text or as the order in which
\* the function finds them).
C10_ExtractionOrderIsFirstOccurrence ==
    pc = "media returned" =>
        /\ NoDup(candidates)
        /\ candidates \in {FoundOrder(html, base_url), TextOrder(html, base_url)}

\* the static scan returned a result (no error)
StaticReturned == pc \in {"display", "done"} /\ ~use_js /\ top_ok = "ok"

\* how many times x stands in the list
Count(list, x) == Cardinality({k \in DOMAIN list : list[k] = x})

\* C11: with iframe_depth >= 1 every iframe URL among the first
\* max_iframes_per_level of the page is fetched exactly once, every
\* candidate extracted from a fetched sub-document is in the returned
\* candidates, and when one of them is a .mpd that verifies as a DASH
\* master, best is a verified .mpd URL.
C11_TopIframesFetchedAndGathered ==
    (StaticReturned /\ iframe_depth >= 1) =>
        /\ \A k \in DOMAIN trail[1].iframes :
              k <= max_iframes_per_level => Count(fetched, trail[1].iframes[k]) = 1
        /\ \A t \in DOMAIN trail :
              trail[t].level >= 1 => Range(trail[t].cands) \subseteq Range(candidates)
        /\ (\E t \in DOMAIN trail : \E u \in Range(trail[t].cands) :
                /\ trail[t].level >= 1
                /\ endswith(lower(u), ".mpd") /\ VerifiedOk(u, "mpd"))
           => (endswith(lower(best), ".mpd") /\ VerifiedOk(best, "mpd"))

\* a page with more iframes than the cap; a .mpd found only in a
\* sub-document verifies and is returned as best
C11_Witness ==
    /\ pc = "done" /\ ~use_js /\ iframe_depth >= 1
    /\ trail # <<>>
    /\ Len(trail[1].iframes) > max_iframes_per_level
    /\ max_iframes_per_level >= 2
    /\ best = DASH /\ VerifiedOk(DASH, "mpd")
    /\ DASH \notin Range(top_cands)
    /\ DASH \in Range(candidates)

\* C12: at every level of find_media_static (the first frontier and each
\* next one) the frontier being expanded holds at most
\* max_iframes_per_level URLs.
C12_FrontierWithinFanout ==
    pc = "iframe" => Len(frontier) <= max_iframes_per_level

\* C13: a sub-document is fetched only if a chain of at most iframe_depth
\* iframe references leads to it from the page (it stands among the iframes
\* of a document fetched one level above, down to the page); the iframes
\* found while the last level is expanded are not fetched and give no
\* candidates: every returned candidate comes from a document of the trail.
C13_FetchedWithinDepth ==
    /\ \A t \in DOMAIN trail :
          trail[t].level >= 1 =>
            /\ trail[t].level <= iframe_depth
            /\ \E p \in 1..(t-1) :
                  /\ trail[p].ok
                  /\ trail[p].level = trail[t].level - 1
                  /\ trail[t].url \in Range(trail[p].iframes)
    /\ fetched = [k \in 1..(Len(trail) - 1) |-> trail[k + 1].url]
    /\ StaticReturned =>
          Range(candidates) = UNION {Range(trail[t].cands) : t \in DOMAIN trail}

\* depth 1: a sub-document of the last level held an iframe, which stays
\* in the frontier and was not fetched
C13_Witness ==
    /\ pc = "done" /\ ~use_js /\ iframe_depth = 1
    /\ Len(trail) >= 2
    /\ trail[2].iframes # <<>>
    /\ \E u \in Range(frontier) : u \notin Range(fetched) /\ u # page_url
    /\ candidates # <<>>

\* C14: no URL is expanded twice, the fetch of the page counted: the page
\* URL, fetched at line 106, is never fetched again as a sub-document, and
\* no document of the trail stands in it twice.
C14_PageNeverFetchedAgain ==
    /\ page_url \notin Range(fetched)
    /\ \A s, t \in DOMAIN trail : trail[s].url = trail[t].url => s = t

\* the verification GETs of the HLS tier, in the order they were made
HlsLog == SelectSeq(verified, LAMBDA v : v.kind = "m3u8")

\* the "master"-named .m3u8 candidates in the order of the list, then all
\* the .m3u8 candidates in the order of the list
HlsExpected ==
    SelectSeq(candidates, LAMBDA u : /\ endswith(lower(u), ".m3u8")
                                     /\ contains(lower(u), "master"))
    \o SelectSeq(candidates, LAMBDA u : endswith(lower(u), ".m3u8"))

\* C15: the HLS tier starts only when no .mpd candidate verified; it
\* verifies the "master"-named .m3u8 candidates in list order, then all the
\* .m3u8 candidates in list order, stops at the first that verifies, and
\* that one is the result; when none verifies the whole sequence was tried.
C15_MasterNamedHlsFirst ==
    /\ Len(HlsLog) <= Len(HlsExpected)
    /\ \A k \in DOMAIN HlsLog : HlsLog[k].url = HlsExpected[k]
    /\ \A k \in DOMAIN HlsLog : HlsLog[k].ok => k = Len(HlsLog)
    /\ HlsLog # <<>> =>
          \A v \in DOMAIN verified : verified[v].kind = "mpd" => ~verified[v].ok
    /\ (Returned /\ HlsLog # <<>> /\ HlsLog[Len(HlsLog)].ok) =>
          best = HlsLog[Len(HlsLog)].url
    /\ (Returned /\ candidates # <<>>
          /\ \A v \in DOMAIN verified : ~verified[v].ok) =>
          Len(HlsLog) = Len(HlsExpected)

\* the plain .m3u8 stands before the "master"-named one in the list, and
\* the "master"-named one, verified first, is the result
C15_Witness ==
    /\ Returned
    /\ Len(candidates) >= 2 /\ candidates[1] = HLS /\ candidates[2] = MASTER
    /\ HlsLog = <<[url |-> MASTER, kind |-> "m3u8", ok |-> TRUE, get |-> "master"]>>
    /\ best = MASTER

\* choose_best is running
Choosing == pc \in {"choose", "mpd", "hls"}

\* C16: a verification GET that fails answers false and raises nothing:
\* the step after it stays in choose_best, moves past the candidate, and
\* leaves best and the error alone; choose_best can always take its next
\* step until it returns, and once a verification ran the scan's error is
\* absent and nothing was raised.
C16_VerificationFailureAbsorbed ==
    /\ [][(verified' # verified /\ verified'[Len(verified')].get = "error") =>
            /\ ~verified'[Len(verified')].ok
            /\ pc' = pc /\ Choosing
            /\ ci' > ci
            /\ best' = best /\ err' = err /\ candidates' = candidates]_vars
    /\ [](Choosing =>
            /\ err = "None"
            /\ ENABLED (ChooseEmpty \/ ChooseBegin \/ VerifyMpd \/ MpdDone
                          \/ VerifyHls \/ Fallback))
    /\ [](verified # <<>> => (err = "None" /\ pc # "raised"))
    /\ []((pc = "done" /\ verified # <<>>) => (best # None /\ shown = "best"))

\* the GET of the first candidate failed, the next candidate was verified
\* and is the result; no error is shown
C16_Witness ==
    /\ pc = "done" /\ err = "None" /\ shown = "best"
    /\ Len(verified) = 2
    /\ verified[1].get = "error" /\ ~verified[1].ok
    /\ verified[2].ok /\ verified[2].url # verified[1].url
    /\ best = verified[2].url

\* the position in the trail of the document where u was first discovered
FirstAt(u) ==
    CHOOSE t \in DOMAIN trail :
        /\ u \in Range(trail[t].cands)
        /\ \A p \in 1..(t-1) : u \notin Range(trail[p].cands)

\* C17: the documents are expanded level by level (the page, then level 1,
\* then level 2), and in the returned list a candidate first discovered in
\* an earlier-expanded document never stands after one first discovered in
\* a later-expanded document (stated on neighbours: both orders are
\* transitive).
C17_CandidatesInDiscoveryOrder ==
    /\ \A t \in 2..Len(trail) : trail[t - 1].level <= trail[t].level
    /\ StaticReturned =>
          /\ \A a \in DOMAIN candidates :
                \E t \in DOMAIN trail : candidates[a] \in Range(trail[t].cands)
          /\ \A a \in 2..Len(candidates) :
                FirstAt(candidates[a - 1]) <= FirstAt(candidates[a])

\* three candidates, first discovered in the page, in a level-1 document
\* and in a level-2 document, the first of them found again further down
C17_Witness ==
    /\ pc = "done" /\ ~use_js /\ top_ok = "ok" /\ iframe_depth = 2
    /\ Len(candidates) >= 3
    /\ \E a, b \in DOMAIN candidates :
          /\ a < b
          /\ FirstAt(candidates[a]) = 1
          /\ trail[FirstAt(candidates[b])].level = 2
          /\ \E c \in (a+1)..(b-1) : trail[FirstAt(candidates[c])].level = 1
          /\ \E t \in 2..Len(trail) : candidates[a] \in Range(trail[t].cands)

\* find_media_static or find_media_playwright has returned to the script
ScanReturned == pc \in {"display", "done"}

\* C18: when a scan has returned, a present best is one of the returned
\* candidates, best is absent exactly when the candidates are empty, and
\* with no candidates no verification GET was made.
C18_BestAmongCandidates ==
    ScanReturned =>
        /\ best # None => best \in Range(candidates)
        /\ best = None <=> candidates = <<>>
        /\ candidates = <<>> => verified = <<>>

\* a scan that returned several candidates and a best that passed its
\* verification after another candidate failed its own
C18_Witness ==
    /\ pc = "done" /\ err = "None"
    /\ Len(candidates) >= 2
    /\ best # None /\ best \in Range(candidates) /\ best # candidates[1]
    /\ Len(verified) >= 2

\* C19: the verification GETs of choose_best are ordered: every DASH
\* verification comes before every HLS verification, and an HLS
\* verification is made only when each candidate ending in .mpd was
\* verified and found false; a verification that answers true is the last
\* one; a URL is verified only as what its ending says, so a candidate
\* ending in neither .mpd nor .m3u8 is never verified.
C19_VerificationsStrictlyOrdered ==
    /\ \A a, b \in DOMAIN verified :
          (verified[a].kind = "mpd" /\ verified[b].kind = "m3u8") => a < b
    /\ (\E v \in DOMAIN verified : verified[v].kind = "m3u8") =>
          \A u \in Range(candidates) :
              endswith(lower(u), ".mpd") =>
                  (VerifiedNo(u, "mpd") /\ ~VerifiedOk(u, "mpd"))
    /\ \A v \in DOMAIN verified : verified[v].ok => v = Len(verified)
    /\ \A v \in DOMAIN verified :
          /\ verified[v].url \in Range(candidates)
          /\ verified[v].kind = "mpd" => endswith(lower(verified[v].url), ".mpd")
          /\ verified[v].kind = "m3u8" => endswith(lower(verified[v].url), ".m3u8")

\* a manifest URL followed by a query string and a segment stand in the
\* list and were not verified; the .mpd was verified false before the
\* .m3u8 was verified
C19_Witness ==
    /\ Returned
    /\ DASHQ \in Range(candidates) /\ DASH \in Range(candidates)
    /\ Len(verified) = 2
    /\ verified[1] = [url |-> DASH, kind |-> "mpd", ok |-> FALSE, get |-> "other"]
    /\ verified[2].kind = "m3u8" /\ verified[2].ok
    /\ best = verified[2].url

\* the positions of the verification GETs of u made as kind
GetsOf(u, kind) ==
    {v \in DOMAIN verified : verified[v].url = u /\ verified[v].kind = kind}

\* C20: in one call of choose_best a candidate ending in .mpd is fetched
\* for verification at most once and never as HLS; a candidate ending in
\* .m3u8 at most twice and never as DASH, and twice only when its URL
\* contains "master" and its first verification answered false.
C20_VerificationFetchCounts ==
    \A u \in Range(candidates) :
        /\ Cardinality(GetsOf(u, "mpd")) <= 1
        /\ Cardinality(GetsOf(u, "m3u8")) <= 2
        /\ GetsOf(u, "mpd") = {} \/ GetsOf(u, "m3u8") = {}
        /\ Cardinality(GetsOf(u, "m3u8")) = 2 =>
              /\ contains(lower(u), "master")
              /\ \E v \in GetsOf(u, "m3u8") :
                    /\ ~verified[v].ok
                    /\ \A w \in GetsOf(u, "m3u8") : v <= w

\* the "master"-named .m3u8 was fetched twice: the first GET failed, the
\* second answered a master playlist, and the URL is the result
C20_Witness ==
    /\ Returned
    /\ MASTER \in Range(candidates)
    /\ Cardinality(GetsOf(MASTER, "m3u8")) = 2
    /\ \E v, w \in GetsOf(MASTER, "m3u8") :
          v < w /\ ~verified[v].ok /\ verified[w].ok
    /\ best = MASTER

====
